---- MODULE Spec2Model ----
(***************************************************************************)
(* Model of the time MCP server (src/src/index.ts): the tools/list and     *)
(* tools/call request handlers of TimeServer, the log utility, and the     *)
(* platform facilities they call (Date, Intl, template literals,           *)
(* JSON.stringify), as far as the handlers' behaviour depends on them.     *)
(***************************************************************************)
EXTENDS Integers, Sequences, FiniteSets, TLC

VARIABLES
    clock,    \* the wall clock, in ticks of TickMs milliseconds since the epoch
    phase,    \* "idle": waiting for a request; "done": a handler has returned
    req,      \* the request the last handler ran for
    resp,     \* what that handler returned (or the exception that escaped it)
    trace,    \* what that handler did: clock readings, catch steps, record
    stderr,   \* the lines that handler wrote to the diagnostic channel
    served,   \* how many requests ended in a failure envelope so far (capped)
    remembered, \* a request handled earlier, with its sample and its response
    firstVersion, \* what the first version of the handler (without log calls)
              \* returns for the same request and the same sampled instant
    proc      \* the process: start-up, SIGINT handlers, close calls, exit

vars == <<clock, phase, req, resp, trace, stderr, served, remembered, firstVersion, proc>>

----------------------------------------------------------------------------
(* Bounds of the model.                                                    *)

\* The wall clock takes the values 0..MaxTicks (times TickMs).
MaxTicks == 3

\* The failure counter saturates here.
MaxServed == 2

----------------------------------------------------------------------------
(* JavaScript values as they arrive in a JSON request.  Every value is a   *)
(* record [kind, val] of two strings: val is the text of a string, the     *)
(* decimal form of a number, "true"/"false", the single element of a       *)
(* one-element array, or the shape of an object.                           *)

Undefined == [kind |-> "undefined", val |-> ""]
Null      == [kind |-> "null", val |-> ""]
Str(s)    == [kind |-> "string", val |-> s]
Num(s)    == [kind |-> "number", val |-> s]
Bool(s)   == [kind |-> "boolean", val |-> s]
Arr1(s)   == [kind |-> "array", val |-> s]        \* [ "s" ]
Arr0      == [kind |-> "emptyarray", val |-> ""]  \* []
ObjPlain  == [kind |-> "object", val |-> "plain"] \* {}
\* {"toString": 1}: an object whose own toString is not callable
ObjNoToString == [kind |-> "object", val |-> "toString"]

\* ToBoolean: what `x || d` and `if (x)` test.
Truthy(v) ==
    CASE v.kind = "undefined" -> FALSE
      [] v.kind = "null"      -> FALSE
      [] v.kind = "boolean"   -> v.val = "true"
      [] v.kind = "number"    -> v.val # "0"
      [] v.kind = "string"    -> v.val # ""
      [] OTHER                -> TRUE

\* ToString throws a TypeError when neither toString nor valueOf of an
\* object yields a primitive.
ToStringThrows(v) == v.kind = "object" /\ v.val = "toString"

TypeErrorMessage == "Cannot convert object to primitive value"

\* ToString of a value it does not throw for (template literals, and the
\* timeZone option of Intl).
JsToString(v) ==
    CASE v.kind = "undefined"  -> "undefined"
      [] v.kind = "null"       -> "null"
      [] v.kind = "emptyarray" -> ""
      [] v.kind = "object"     -> "[object Object]"
      [] OTHER                 -> v.val

\* x === 'literal'
StrictEq(v, s) == v.kind = "string" /\ v.val = s

\* x ?? 'literal': the default only for null and undefined
OrDefaultNullish(v, s) == IF v.kind \in {"undefined", "null"} THEN Str(s) ELSE v

\* x || 'literal'
OrDefault(v, s) == IF Truthy(v) THEN v ELSE Str(s)

\* JSON.stringify(v, null, 2) of a value nested one level deep in an object.
JsonValue(v) ==
    CASE v.kind = "string"     -> "\"" \o v.val \o "\""
      [] v.kind = "null"       -> "null"
      [] v.kind = "array"      -> "[\n    \"" \o v.val \o "\"\n  ]"
      [] v.kind = "emptyarray" -> "[]"
      [] v.kind = "object"     ->
            IF v.val = "plain" THEN "{}" ELSE "{\n    \"toString\": 1\n  }"
      [] OTHER                 -> v.val

----------------------------------------------------------------------------
(* Dates.  An instant is a number of milliseconds since the epoch.         *)

\* One tick of the model's clock: 4 h 15 min 10 s 250 ms.
TickMs == 15310250

Instant(k) == k * TickMs

\* getTimezoneOffset() of the host: minutes behind UTC (300: UTC-5).
HostOffsetMinutes == 300

Pad2(n) == IF n < 10 THEN "0" \o ToString(n) ELSE ToString(n)
Pad3(n) == IF n < 10 THEN "00" \o ToString(n)
           ELSE IF n < 100 THEN "0" \o ToString(n) ELSE ToString(n)

\* The proleptic Gregorian date of a day number (days since 1970-01-01),
\* computed in stages: era and day of era, year of era, day of year, month.
CivilOfMonth(era, yoe, doy, mp) ==
    [year  |-> yoe + era * 400 + (IF mp < 10 THEN 0 ELSE 1),
     month |-> IF mp < 10 THEN mp + 3 ELSE mp - 9,
     day   |-> doy - (153 * mp + 2) \div 5 + 1]

CivilOfDayOfYear(era, yoe, doy) == CivilOfMonth(era, yoe, doy, (5 * doy + 2) \div 153)

CivilOfYear(era, doe, yoe) ==
    CivilOfDayOfYear(era, yoe, doe - (365 * yoe + yoe \div 4 - yoe \div 100))

CivilOfEra(era, doe) ==
    CivilOfYear(era, doe,
                (doe - doe \div 1460 + doe \div 36524 - doe \div 146096) \div 365)

CivilOfShifted(z) == CivilOfEra(z \div 146097, z % 146097)

CivilFromDays(days) == CivilOfShifted(days + 719468)

WeekdayName(n) ==
    CASE n = 0 -> "Sunday"   [] n = 1 -> "Monday" [] n = 2 -> "Tuesday"
      [] n = 3 -> "Wednesday" [] n = 4 -> "Thursday" [] n = 5 -> "Friday"
      [] OTHER -> "Saturday"

FieldsOfCivil(civ, days, rest) ==
    [year |-> civ.year, month |-> civ.month, day |-> civ.day,
     hour |-> rest \div 3600000,
     minute |-> (rest % 3600000) \div 60000,
     second |-> (rest % 60000) \div 1000,
     ms |-> rest % 1000,
     weekday |-> (days + 4) % 7]

FieldsOfDay(days, rest) == FieldsOfCivil(CivilFromDays(days), days, rest)

FieldsOfLocal(local) == FieldsOfDay(local \div 86400000, local % 86400000)

\* The calendar fields of instant t seen `east` minutes east of UTC.
Fields(t, east) == FieldsOfLocal(t + east * 60000)

IsoOfFields(f) ==
    ToString(f.year) \o "-" \o Pad2(f.month) \o "-" \o Pad2(f.day) \o "T"
    \o Pad2(f.hour) \o ":" \o Pad2(f.minute) \o ":" \o Pad2(f.second)
    \o "." \o Pad3(f.ms) \o "Z"

\* Date.prototype.toISOString
ToISOString(t) == IsoOfFields(Fields(t, 0))

Hour12(h) == IF h % 12 = 0 THEN 12 ELSE h % 12
DayPeriod(h) == IF h < 12 THEN "AM" ELSE "PM"

EnUsDateOfFields(f, twoDigit) ==
    IF twoDigit
    THEN Pad2(f.month) \o "/" \o Pad2(f.day) \o "/" \o ToString(f.year)
    ELSE ToString(f.month) \o "/" \o ToString(f.day) \o "/" \o ToString(f.year)

\* The hour field.  (Some ICU versions render midnight in 24-hour notation
\* as "24"; the model renders "00".  Neither carries a day period.)
EnUsHourOfFields(f, twoDigit, hour12) ==
    IF hour12
    THEN (IF twoDigit THEN Pad2(Hour12(f.hour)) ELSE ToString(Hour12(f.hour)))
    ELSE Pad2(f.hour)

EnUsOfFields(f, twoDigit, hour12) ==
    EnUsDateOfFields(f, twoDigit) \o ", " \o EnUsHourOfFields(f, twoDigit, hour12)
    \o ":" \o Pad2(f.minute) \o ":" \o Pad2(f.second)
    \o (IF hour12 THEN " " \o DayPeriod(f.hour) ELSE "")

\* The en-US date-time of instant t, `east` minutes east of UTC: numeric
\* fields (twoDigit FALSE) or 2-digit month, day and hour (twoDigit TRUE),
\* in 12-hour notation with AM/PM (hour12 TRUE) or 24-hour notation.
EnUsDateTime(t, east, twoDigit, hour12) == EnUsOfFields(Fields(t, east), twoDigit, hour12)

\* Date.prototype.toLocaleDateString('en-US')
EnUsDate(t, east) == EnUsDateOfFields(Fields(t, east), FALSE)

----------------------------------------------------------------------------
(* The time zones the platform knows.                                      *)

ValidZones == {"UTC", "Asia/Tokyo", "America/New_York"}

\* Minutes east of UTC (no zone of the model changes its offset in the
\* days the clock covers).
ZoneEast(z) ==
    CASE z = "Asia/Tokyo"       -> 540
      [] z = "America/New_York" -> 0 - 300
      [] OTHER                  -> 0

\* timeZoneName: 'short'
ZoneShortName(z) ==
    CASE z = "Asia/Tokyo"       -> "GMT+9"
      [] z = "America/New_York" -> "EST"
      [] OTHER                  -> "UTC"

RangeErrorMessage(z) == "Invalid time zone specified: " \o z

----------------------------------------------------------------------------
(* Requests.  The arguments of a tools/call request are absent, or an      *)
(* object in which each of the keys timezone and format is absent          *)
(* (Undefined) or holds a JSON value.                                       *)

NoArgs == [present |-> FALSE, timezone |-> Undefined, format |-> Undefined]

\* args?.key
ArgGet(args, key) ==
    IF ~args.present THEN Undefined
    ELSE IF key = "timezone" THEN args.timezone ELSE args.format

\* JSON.stringify(o, null, 2) of an object whose members are `fields`, a
\* sequence of [key, value]; a member whose value is undefined is left out.
JsonMember(f) == "\n  \"" \o f.key \o "\": " \o JsonValue(f.value)

JsonJoin(this, rest) == IF rest = "" THEN this ELSE this \o "," \o rest

RECURSIVE JsonMembers(_)
JsonMembers(fields) ==
    IF fields = <<>> THEN ""
    ELSE IF Head(fields).value.kind = "undefined" THEN JsonMembers(Tail(fields))
    ELSE JsonJoin(JsonMember(Head(fields)), JsonMembers(Tail(fields)))

JsonObject(members) == IF members = "" THEN "{}" ELSE "{" \o members \o "\n}"

JsonStringify(fields) == JsonObject(JsonMembers(fields))

ArgsFields(args) ==
    << [key |-> "timezone", value |-> args.timezone],
       [key |-> "format", value |-> args.format] >>

\* JSON.stringify throws a TypeError for a BigInt and for a cyclic
\* structure; JSON.parse, which builds the arguments, produces neither.
JsonStringifyThrows(fields) ==
    \E i \in 1..Len(fields) : fields[i].value.kind \in {"bigint", "cyclic"}

----------------------------------------------------------------------------
(* The log utility.  `at` is the clock reading its new Date() returns,     *)
(* hasData whether `data` is truthy, dataThrows whether serialising it     *)
(* throws, dataJson its serialisation.  The result is the lines written    *)
(* to stderr and whether the call threw.                                   *)

logFirstLine(at, level, message) ==
    "[" \o ToISOString(at) \o "] " \o level \o ": " \o message

log(at, level, message, hasData, dataThrows, dataJson) ==
    [lines  |-> IF hasData /\ ~dataThrows
                THEN <<logFirstLine(at, level, message), dataJson>>
                ELSE <<logFirstLine(at, level, message)>>,
     thrown |-> hasData /\ dataThrows]

\* log(level, message) without data
logLine(at, level, message) == log(at, level, message, FALSE, FALSE, "").lines

----------------------------------------------------------------------------
(* The tools/list handler.                                                 *)

Param(name, enum, default) == [name |-> name, type |-> "string", enum |-> enum, default |-> default]

\* The catalog with its two descriptors in the other order.
ToolsSwapped ==
    << [name |-> "get_time_info",
        properties |-> << Param("timezone", <<>>, "system") >>,
        additionalProperties |-> FALSE],
       [name |-> "get_current_time",
        properties |-> << Param("timezone", <<>>, "system"),
                          Param("format", <<"12hour", "24hour", "iso">>, "12hour") >>,
        additionalProperties |-> FALSE] >>

Tools ==
    << [name |-> "get_current_time",
        properties |-> << Param("timezone", <<>>, "system"),
                          Param("format", <<"12hour", "24hour", "iso">>, "12hour") >>,
        additionalProperties |-> FALSE],
       [name |-> "get_time_info",
        properties |-> << Param("timezone", <<>>, "system") >>,
        additionalProperties |-> FALSE] >>

\* rd[i] is the clock reading of the i-th new Date() of the handler's run.
ListToolsHandler(logging, rd) ==
    [response |-> [kind |-> "catalog", tools |-> Tools],
     lines |-> IF logging
               THEN logLine(Instant(rd[1]), "INFO", "Received tools/list request")
                    \o logLine(Instant(rd[2]), "INFO",
                               "Returning " \o ToString(Len(Tools)) \o " available tools")
               ELSE <<>>,
     reads |-> IF logging
               THEN << [by |-> "log", at |-> Instant(rd[1])],
                       [by |-> "log", at |-> Instant(rd[2])] >>
               ELSE <<>>]

----------------------------------------------------------------------------
(* The tools/call handler.                                                 *)

\* The outcome of an expression or block: a value, or a thrown error.
Value(v)  == [thrown |-> FALSE, message |-> "", value |-> v]
Throw(m)  == [thrown |-> TRUE, message |-> m, value |-> ""]

\* TimeString catching the platform's failure itself, the way
\* get_time_info does.
TimeStringLocalCatch(now, timezone, format) ==
    IF ~StrictEq(timezone, "system")
    THEN IF ToStringThrows(timezone) \/ JsToString(timezone) \notin ValidZones
         THEN Value("Invalid timezone")
         ELSE Value(EnUsDateTime(now, ZoneEast(JsToString(timezone)), TRUE,
                                 StrictEq(format, "12hour")))
    ELSE IF StrictEq(format, "iso") THEN Value(ToISOString(now))
    ELSE IF StrictEq(format, "24hour")
         THEN Value(EnUsDateTime(now, 0 - HostOffsetMinutes, FALSE, FALSE))
         ELSE Value(EnUsDateTime(now, 0 - HostOffsetMinutes, FALSE, TRUE))

\* TimeString choosing the notation of the system branch the way the
\* time zone branch does (hour12: format === '12hour').
TimeStringSystemStrict(now, timezone, format) ==
    IF ~StrictEq(timezone, "system")
    THEN IF ToStringThrows(timezone) THEN Throw(TypeErrorMessage)
         ELSE IF JsToString(timezone) \notin ValidZones
              THEN Throw(RangeErrorMessage(JsToString(timezone)))
              ELSE Value(EnUsDateTime(now, ZoneEast(JsToString(timezone)), TRUE,
                                      StrictEq(format, "12hour")))
    ELSE IF StrictEq(format, "iso") THEN Value(ToISOString(now))
    ELSE Value(EnUsDateTime(now, 0 - HostOffsetMinutes, FALSE, StrictEq(format, "12hour")))

\* TimeString choosing the notation of the time zone branch the way the
\* system branch does (24-hour only for '24hour', ISO for 'iso').
TimeStringZoneLenient(now, timezone, format) ==
    IF StrictEq(format, "iso") THEN Value(ToISOString(now))
    ELSE IF ~StrictEq(timezone, "system")
    THEN IF ToStringThrows(timezone) THEN Throw(TypeErrorMessage)
         ELSE IF JsToString(timezone) \notin ValidZones
              THEN Throw(RangeErrorMessage(JsToString(timezone)))
              ELSE Value(EnUsDateTime(now, ZoneEast(JsToString(timezone)), TRUE,
                                      ~StrictEq(format, "24hour")))
    ELSE Value(EnUsDateTime(now, 0 - HostOffsetMinutes, FALSE, ~StrictEq(format, "24hour")))

\* get_current_time: the time string of the sampled instant `now`.
TimeString(now, timezone, format) ==
    IF ~StrictEq(timezone, "system")
    THEN \* toLocaleString('en-US', {timeZone, 2-digit fields, hour12})
         IF ToStringThrows(timezone) THEN Throw(TypeErrorMessage)
         ELSE IF JsToString(timezone) \notin ValidZones
              THEN Throw(RangeErrorMessage(JsToString(timezone)))
              ELSE Value(EnUsDateTime(now, ZoneEast(JsToString(timezone)), TRUE,
                                      StrictEq(format, "12hour")))
    ELSE IF StrictEq(format, "iso") THEN Value(ToISOString(now))
    ELSE IF StrictEq(format, "24hour")
         THEN Value(EnUsDateTime(now, 0 - HostOffsetMinutes, FALSE, FALSE))
         ELSE Value(EnUsDateTime(now, 0 - HostOffsetMinutes, FALSE, TRUE))

\* The outcome of a tool's block inside the dispatcher's try.
Outcome(thrown, message, text, lines, reads, timezone, format, record, localCatch) ==
    [thrown |-> thrown, message |-> message, text |-> text, lines |-> lines,
     reads |-> reads, timezone |-> timezone, format |-> format,
     record |-> record, localCatch |-> localCatch]

LogRead(k)  == [by |-> "log", at |-> Instant(k)]
NowRead(k)  == [by |-> "handler", at |-> Instant(k)]

\* The lines and clock readings of a log call the handler may make.
LinesIf(logging, at, message) ==
    IF logging THEN logLine(Instant(at), "INFO", message) ELSE <<>>
ReadsIf(logging, at) == IF logging THEN <<LogRead(at)>> ELSE <<>>

\* get_current_time from the sampling of `now` (the reading rd[at]) on;
\* lines1 and reads1 are the handler's log lines and readings before it.
CurrentTimeResult(logging, rd, at, timezone, format, lines1, reads1, ts) ==
    IF ts.thrown
    THEN Outcome(TRUE, ts.message, "", lines1, reads1 \o <<NowRead(rd[at])>>,
                 timezone, format, <<>>, FALSE)
    ELSE Outcome(FALSE, "", "Current time: " \o ts.value,
                 lines1 \o LinesIf(logging, rd[at + 1], "Returning time: " \o ts.value),
                 reads1 \o <<NowRead(rd[at])>> \o ReadsIf(logging, rd[at + 1]),
                 timezone, format, <<>>, FALSE)

CurrentTimeResolved(logging, rd, first, timezone, format) ==
    IF logging /\ (ToStringThrows(timezone) \/ ToStringThrows(format))
    THEN \* the template literal of the log message throws
         Outcome(TRUE, TypeErrorMessage, "", <<>>, <<>>, timezone, format, <<>>, FALSE)
    ELSE CurrentTimeResult(logging, rd, IF logging THEN first + 1 ELSE first,
             timezone, format,
             LinesIf(logging, rd[first],
                     "Getting current time - timezone: " \o JsToString(timezone)
                     \o ", format: " \o JsToString(format)),
             ReadsIf(logging, rd[first]),
             TimeString(Instant(rd[IF logging THEN first + 1 ELSE first]),
                        timezone, format))

\* The get_current_time block; rd[first] is the next unread clock reading.
GetCurrentTime(logging, args, rd, first) ==
    CurrentTimeResolved(logging, rd, first,
                        OrDefault(ArgGet(args, "timezone"), "system"),
                        OrDefault(ArgGet(args, "format"), "12hour"))

BaseRecordOfFields(now, f) ==
    << [key |-> "timestamp",       value |-> Num(ToString(now))],
       [key |-> "iso_string",      value |-> Str(ToISOString(now))],
       [key |-> "local_time",      value |-> Str(EnUsOfFields(f, FALSE, TRUE))],
       [key |-> "day_of_week",     value |-> Str(WeekdayName(f.weekday))],
       [key |-> "date",            value |-> Str(EnUsDateOfFields(f, FALSE))],
       [key |-> "year",            value |-> Num(ToString(f.year))],
       [key |-> "month",           value |-> Num(ToString(f.month))],
       [key |-> "day",             value |-> Num(ToString(f.day))],
       [key |-> "hour",            value |-> Num(ToString(f.hour))],
       [key |-> "minute",          value |-> Num(ToString(f.minute))],
       [key |-> "second",          value |-> Num(ToString(f.second))],
       [key |-> "timezone_offset", value |-> Num(ToString(HostOffsetMinutes))] >>

\* get_time_info: the twelve fields computed from the sampled instant, in
\* the host's time zone.
BaseRecord(now) == BaseRecordOfFields(now, Fields(now, 0 - HostOffsetMinutes))

\* new Intl.DateTimeFormat('en-US', {timeZone, ..., timeZoneName: 'short'})
\* .format(now)
ZonedTime(now, timezone) ==
    IF ToStringThrows(timezone) THEN Throw(TypeErrorMessage)
    ELSE IF JsToString(timezone) \notin ValidZones
         THEN Throw(RangeErrorMessage(JsToString(timezone)))
         ELSE Value(EnUsDateTime(now, ZoneEast(JsToString(timezone)), TRUE, TRUE)
                    \o " " \o ZoneShortName(JsToString(timezone)))

\* TimezoneCatch echoing the time zone converted to a string.
TimezoneCatchCoerced(timezone, z) ==
    IF ~z.thrown
    THEN Value(<< [key |-> "timezone_time", value |-> Str(z.value)],
                  [key |-> "requested_timezone", value |-> Str(JsToString(timezone))] >>)
    ELSE IF ToStringThrows(timezone) THEN Throw(TypeErrorMessage)
         ELSE Value(<< [key |-> "timezone_error",
                        value |-> Str("Invalid timezone: " \o JsToString(timezone))] >>)

\* TimezoneCatch echoing the time zone in the catch block too.
TimezoneCatchEchoing(timezone, z) ==
    IF ~z.thrown
    THEN Value(<< [key |-> "timezone_time", value |-> Str(z.value)],
                  [key |-> "requested_timezone", value |-> timezone] >>)
    ELSE IF ToStringThrows(timezone) THEN Throw(TypeErrorMessage)
         ELSE Value(<< [key |-> "timezone_error",
                        value |-> Str("Invalid timezone: " \o JsToString(timezone))],
                       [key |-> "requested_timezone", value |-> timezone] >>)

\* The inner try/catch of get_time_info, given the outcome z of the
\* formatting: the fields added to the record, or the error thrown out of
\* the catch block.
TimezoneCatch(timezone, z) ==
    IF ~z.thrown
    THEN Value(<< [key |-> "timezone_time", value |-> Str(z.value)],
                  [key |-> "requested_timezone", value |-> timezone] >>)
    ELSE \* catch (error): the template literal converts timezone
         IF ToStringThrows(timezone) THEN Throw(TypeErrorMessage)
         ELSE Value(<< [key |-> "timezone_error",
                        value |-> Str("Invalid timezone: " \o JsToString(timezone))] >>)

\* TimezoneFields formatting for every time zone, "system" included.
TimezoneFieldsNoSystem(now, timezone) ==
    TimezoneCatch(timezone, ZonedTime(now, timezone))

\* get_time_info: what the timezone branch adds to the record.
TimezoneFields(now, timezone) ==
    IF StrictEq(timezone, "system") THEN Value(<<>>)
    ELSE TimezoneCatch(timezone, ZonedTime(now, timezone))

\* Whether the inner catch block of get_time_info runs.
LocalCatch(now, timezone) ==
    ~StrictEq(timezone, "system") /\ ZonedTime(now, timezone).thrown

TimeInfoText(logging, rd, at, timezone, lines1, reads1, local, timeInfo) ==
    Outcome(FALSE, "", JsonStringify(timeInfo),
            lines1 \o LinesIf(logging, rd[at + 1], "Returning detailed time info"),
            reads1 \o <<NowRead(rd[at])>> \o ReadsIf(logging, rd[at + 1]),
            timezone, Undefined, timeInfo, local)

\* get_time_info from the sampling of `now` (the reading rd[at]) on.
TimeInfoResult(logging, rd, at, timezone, lines1, reads1, tzf, local) ==
    IF tzf.thrown
    THEN Outcome(TRUE, tzf.message, "", lines1, reads1 \o <<NowRead(rd[at])>>,
                 timezone, Undefined, <<>>, local)
    ELSE TimeInfoText(logging, rd, at, timezone, lines1, reads1, local,
                      BaseRecord(Instant(rd[at])) \o tzf.value)

\* TimeInfoSampled reading the clock again for the time zone fields.
TimeInfoResampled(logging, rd, at, timezone, lines1, reads1) ==
    TimeInfoResult(logging, rd, at, timezone, lines1, reads1,
                   TimezoneFields(Instant(rd[at + 1]), timezone),
                   LocalCatch(Instant(rd[at + 1]), timezone))

TimeInfoSampled(logging, rd, at, timezone, lines1, reads1) ==
    TimeInfoResult(logging, rd, at, timezone, lines1, reads1,
                   TimezoneFields(Instant(rd[at]), timezone),
                   LocalCatch(Instant(rd[at]), timezone))

TimeInfoResolved(logging, rd, first, timezone) ==
    IF logging /\ ToStringThrows(timezone)
    THEN \* the template literal of the log message throws
         Outcome(TRUE, TypeErrorMessage, "", <<>>, <<>>, timezone, Undefined, <<>>, FALSE)
    ELSE TimeInfoSampled(logging, rd, IF logging THEN first + 1 ELSE first, timezone,
             LinesIf(logging, rd[first],
                     "Getting detailed time info - timezone: " \o JsToString(timezone)),
             ReadsIf(logging, rd[first]))

\* The get_time_info block; rd[first] is the next unread clock reading.
GetTimeInfo(logging, args, rd, first) ==
    TimeInfoResolved(logging, rd, first, OrDefault(ArgGet(args, "timezone"), "system"))

\* throw new Error(`Unknown tool: ${name}`)
UnknownTool(name) ==
    Outcome(TRUE, "Unknown tool: " \o name, "", <<>>, <<>>, Undefined, Undefined, <<>>, FALSE)

\* TryBlock without the get_time_info branch.
TryBlockOneTool(logging, name, args, rd, first) ==
    IF name = "get_current_time" THEN GetCurrentTime(logging, args, rd, first)
    ELSE UnknownTool(name)

\* The body of the dispatcher's try block.
TryBlock(logging, name, args, rd, first) ==
    IF name = "get_current_time" THEN GetCurrentTime(logging, args, rd, first)
    ELSE IF name = "get_time_info" THEN GetTimeInfo(logging, args, rd, first)
    ELSE UnknownTool(name)

SuccessEnvelope(text) ==
    [kind |-> "envelope", content |-> << [type |-> "text", text |-> text] >>,
     hasIsError |-> FALSE, isError |-> FALSE]

FailureEnvelope(message) ==
    [kind |-> "envelope", content |-> << [type |-> "text", text |-> "Error: " \o message] >>,
     hasIsError |-> TRUE, isError |-> TRUE]

\* An exception that leaves the handler.
Escaped(message) == [kind |-> "exception", message |-> message]

\* Dispatch with the catch step rethrowing instead of wrapping.
DispatchRethrow(out, pre, post) ==
    IF pre.thrown \/ out.thrown THEN Escaped(IF out.thrown THEN out.message ELSE TypeErrorMessage)
    ELSE SuccessEnvelope(out.text)

\* Dispatch keeping an error state: once a call has failed, every call fails.
DispatchSticky(out, pre, post) ==
    IF pre.thrown THEN Escaped(TypeErrorMessage)
    ELSE IF served > 0 THEN FailureEnvelope("Server is in an error state")
    ELSE IF ~out.thrown THEN SuccessEnvelope(out.text)
    ELSE IF post.thrown THEN Escaped(TypeErrorMessage)
    ELSE FailureEnvelope(out.message)

\* What the dispatcher does with the outcome of its try block: the return
\* of the envelope, or the catch step.  `pre` is the log call before the
\* try, `post` the log call of the catch block.
Dispatch(out, pre, post) ==
    IF pre.thrown THEN Escaped(TypeErrorMessage)
    ELSE IF ~out.thrown THEN SuccessEnvelope(out.text)
    ELSE IF post.thrown THEN Escaped(TypeErrorMessage)
    ELSE FailureEnvelope(out.message)

NoLog == [lines |-> <<>>, thrown |-> FALSE]

\* log('INFO', `Received tool call: ${name}`, args), before the try
PreLog(logging, name, args, rd) ==
    IF logging
    THEN log(Instant(rd[1]), "INFO", "Received tool call: " \o name, args.present,
             JsonStringifyThrows(ArgsFields(args)), JsonStringify(ArgsFields(args)))
    ELSE NoLog

\* log('ERROR', `Tool execution failed: ${name}`, error), in the catch
\* block; the serialisation of an Error, which has no enumerable member,
\* is "{}".
PostLog(logging, name, rd, out, at) ==
    IF logging /\ out.thrown
    THEN log(Instant(rd[at]), "ERROR", "Tool execution failed: " \o name, TRUE, FALSE, "{}")
    ELSE NoLog

CallToolReads(logging, rd, pre, out) ==
    IF ~logging THEN out.reads
    ELSE IF pre.thrown THEN <<LogRead(rd[1])>>
    ELSE <<LogRead(rd[1])>> \o out.reads
         \o (IF out.thrown THEN <<LogRead(rd[2 + Len(out.reads)])>> ELSE <<>>)

CallToolResult(logging, rd, pre, out, post) ==
    [response |-> Dispatch(out, pre, post),
     lines    |-> IF pre.thrown THEN pre.lines
                  ELSE pre.lines \o out.lines \o post.lines,
     reads    |-> CallToolReads(logging, rd, pre, out),
     entered  |-> ~pre.thrown,
     caught   |-> ~pre.thrown /\ out.thrown,
     out      |-> out]

CallToolTried(logging, name, rd, first, pre, out) ==
    CallToolResult(logging, rd, pre, out,
                   PostLog(logging, name, rd, out, first + Len(out.reads)))

\* The tools/call handler, with (logging) or without the log calls; rd[i]
\* is the clock reading of the i-th new Date() of the run.
CallToolHandler(logging, name, args, rd) ==
    CallToolTried(logging, name, rd, IF logging THEN 2 ELSE 1,
                  PreLog(logging, name, args, rd),
                  TryBlock(logging, name, args, rd, IF logging THEN 2 ELSE 1))

----------------------------------------------------------------------------
(* The requests a client can send.                                         *)

ToolNames == {"get_current_time", "get_time_info", "nonexistent_op",
              "Get_Current_Time", ""}

TimezoneArgs ==
    {Undefined, Null, Str(""), Str("system"), Str("System"), Str("UTC"),
     Str("Asia/Tokyo"), Str("Not/ARealZone"), Num("0"), Num("5"),
     Bool("false"), Bool("true"), Arr1("UTC"), Arr0, ObjPlain, ObjNoToString}

FormatArgs ==
    {Undefined, Str(""), Str("12hour"), Str("24hour"), Str("iso"), Str("ISO"),
     Num("0"), Num("24"), Arr1("12hour"), ObjNoToString}

ArgsValues ==
    {NoArgs} \cup [present : {TRUE}, timezone : TimezoneArgs, format : FormatArgs]

\* The most clock readings one run of a handler takes.
ReadsPerCall == 4

\* The readings of one run: the clock may advance before each of them.
Readings ==
    {rd \in [1..ReadsPerCall -> clock..MaxTicks] :
        \A i \in 1..(ReadsPerCall - 1) : rd[i] <= rd[i + 1] /\ rd[i + 1] <= rd[i] + 1}

----------------------------------------------------------------------------
(* The state machine: the transport delivers one request at a time to its  *)
(* handler, and sends what the handler returns.                            *)

None == [kind |-> "none"]

\* The process: its state ("starting": run() has called connect;
\* "running": connected; "failed": run() has rejected and the top-level
\* handler has run; "exited"), whether start-up failed, the SIGINTs
\* received, the close calls pending, completed and failed, the SIGINT
\* handlers ready to resume after their await, how the process exited, and
\* the messages of the process-level log calls.
Process(state) ==
    [state |-> state, failed |-> FALSE, sigints |-> 0, closing |-> 0,
     closed |-> 0, rejected |-> 0, resumable |-> 0,
     exitCode |-> 0, exitBy |-> "none",
     logged |-> <<"Starting Time MCP Server", "Initializing Time MCP Server">>]

\* The server is connected and waits for its first request.
Init ==
    /\ clock = 0
    /\ phase = "idle"
    /\ req = None
    /\ resp = None
    /\ trace = None
    /\ stderr = <<>>
    /\ served = 0
    /\ remembered = None
    /\ firstVersion = None
    /\ proc = Process("running")

\* Time passes between requests.
Tick ==
    /\ proc.state # "exited"
    /\ phase = "idle"
    /\ clock < MaxTicks
    /\ clock' = clock + 1
    /\ UNCHANGED <<phase, req, resp, trace, stderr, served, remembered, firstVersion, proc>>

\* The tools/list handler runs and returns r.
ListToolsReturns(rd, r) ==
    /\ req' = [kind |-> "list"]
    /\ resp' = r.response
    /\ stderr' = r.lines
    /\ trace' = [kind |-> "list", reads |-> r.reads]
    /\ clock' = (IF r.reads = <<>> THEN clock ELSE rd[Len(r.reads)])
    /\ phase' = "done"

\* A tools/list request is handled.
ListTools ==
    /\ proc.state = "running"
    /\ phase = "idle"
    /\ \E rd \in Readings :
         \E r \in {ListToolsHandler(TRUE, rd)} : ListToolsReturns(rd, r)
    /\ UNCHANGED <<served, remembered, firstVersion, proc>>

\* The tools/call handler runs for the request (name, args) and returns r.
CallToolReturns(name, args, rd, r) ==
    /\ req' = [kind |-> "call", name |-> name, args |-> args]
    /\ resp' = r.response
    /\ stderr' = r.lines
    /\ trace' = [kind |-> "call", reads |-> r.reads, entered |-> r.entered,
                 caught |-> r.caught, out |-> r.out]
    /\ clock' = (IF r.reads = <<>> THEN clock ELSE rd[Len(r.reads)])
    /\ served' = (IF r.response.kind = "envelope" /\ r.response.isError
                     /\ served < MaxServed
                  THEN served + 1 ELSE served)
    /\ phase' = "done"

\* A tools/call request is handled.
CallTool ==
    /\ proc.state = "running"
    /\ phase = "idle"
    /\ \E name \in ToolNames, args \in ArgsValues, rd \in Readings :
         \E r \in {CallToolHandler(TRUE, name, args, rd)} :
             CallToolReturns(name, args, rd, r)
    /\ UNCHANGED <<remembered, firstVersion, proc>>

\* The transport sends the response; the handler's locals are gone.
Send ==
    /\ proc.state = "running"
    /\ phase = "done"
    /\ phase' = "idle"
    /\ req' = None
    /\ resp' = None
    /\ trace' = None
    /\ stderr' = <<>>
    /\ firstVersion' = None
    /\ UNCHANGED <<clock, served, remembered, proc>>

Next == Tick \/ ListTools \/ CallTool \/ Send

Spec == Init /\ [][Next]_vars

----------------------------------------------------------------------------
(* Two requests of one run compared: a handled request is remembered, with *)
(* the instant its handler sampled and its response, while no call has     *)
(* failed yet, and requests go on.  The requests are drawn from a smaller  *)
(* set.                                                                     *)

ProbeNames == {"get_current_time", "get_time_info", "nonexistent_op"}

ProbeArgs ==
    {NoArgs,
     [present |-> TRUE, timezone |-> Str("Asia/Tokyo"), format |-> Str("iso")],
     [present |-> TRUE, timezone |-> Str("Not/ARealZone"), format |-> Undefined],
     [present |-> TRUE, timezone |-> Undefined, format |-> ObjNoToString]}

\* A tools/call request of the smaller set is handled.
CallToolProbe ==
    /\ proc.state = "running"
    /\ phase = "idle"
    /\ \E name \in ProbeNames, args \in ProbeArgs, rd \in Readings :
         \E r \in {CallToolHandler(TRUE, name, args, rd)} :
             CallToolReturns(name, args, rd, r)
    /\ UNCHANGED <<remembered, firstVersion, proc>>

\* The instant a handler run sampled into `now` (-1: none).
SampleOf(reads) ==
    IF \E i \in 1..Len(reads) : reads[i].by = "handler"
    THEN reads[CHOOSE i \in 1..Len(reads) : reads[i].by = "handler"].at
    ELSE 0 - 1

\* The request just handled is remembered.
Remember ==
    /\ phase = "done"
    /\ remembered = None
    /\ served = 0 \/ (served = 1 /\ IF resp.kind = "envelope" THEN resp.isError ELSE FALSE)
    /\ remembered' = [kind |-> "request", req |-> req, now |-> SampleOf(trace.reads),
                      response |-> resp]
    /\ UNCHANGED <<clock, phase, req, resp, trace, stderr, served, firstVersion, proc>>

NextPair == Tick \/ ListTools \/ CallToolProbe \/ Send \/ Remember

SpecPair == Init /\ [][NextPair]_vars

----------------------------------------------------------------------------
(* The two versions of the handlers side by side: each request is handled  *)
(* by the version with logging, and what the version without logging      *)
(* returns for the same request and the same sampled instant is kept       *)
(* beside it.                                                              *)

\* The readings of the version without logging: its first new Date() is
\* the sample, which the version with logging takes third.
FirstVersionReadings(rd) == [i \in 1..ReadsPerCall |-> rd[3]]

FirstVersionOf(r) ==
    [kind |-> "first", response |-> r.response, lines |-> r.lines, out |-> r.out]

\* A tools/list request is handled by both versions.
ListToolsVersions ==
    /\ proc.state = "running"
    /\ phase = "idle"
    /\ \E rd \in Readings :
         /\ \E r \in {ListToolsHandler(TRUE, rd)} : ListToolsReturns(rd, r)
         /\ \E r \in {ListToolsHandler(FALSE, FirstVersionReadings(rd))} :
               firstVersion' = [kind |-> "first", response |-> r.response,
                                lines |-> r.lines, out |-> None]
    /\ UNCHANGED <<served, remembered, proc>>

\* A tools/call request is handled by both versions.
CallToolVersions ==
    /\ proc.state = "running"
    /\ phase = "idle"
    /\ \E name \in ToolNames, args \in ArgsValues, rd \in Readings :
         /\ \E r \in {CallToolHandler(TRUE, name, args, rd)} :
               CallToolReturns(name, args, rd, r)
         /\ \E r \in {CallToolHandler(FALSE, name, args, FirstVersionReadings(rd))} :
               firstVersion' = FirstVersionOf(r)
    /\ UNCHANGED <<remembered, proc>>

NextVersions == Tick \/ ListToolsVersions \/ CallToolVersions \/ Send

SpecVersions == Init /\ [][NextVersions]_vars

----------------------------------------------------------------------------
(* The process: start-up, SIGINT, exit.                                    *)

MaxSigints == 2

\* The process has been constructed and run() has called connect.
InitProc ==
    /\ clock = 0
    /\ phase = "idle"
    /\ req = None
    /\ resp = None
    /\ trace = None
    /\ stderr = <<>>
    /\ served = 0
    /\ remembered = None
    /\ firstVersion = None
    /\ proc = Process("starting")

Handling == <<clock, phase, req, resp, trace, stderr, served, remembered, firstVersion>>

\* process.exit(code), or the runtime ending the process with that status.
Exit(p, code, by) ==
    [p EXCEPT !.state = "exited", !.exitCode = code, !.exitBy = by]

\* run(): connect resolves; the server is ready.
Connect ==
    /\ proc.state = "starting"
    /\ proc' = [proc EXCEPT !.state = "running",
                            !.logged = @ \o <<"Time MCP server connected and ready",
                                              "Time MCP server running on stdio">>]
    /\ UNCHANGED Handling

\* run() rejects: the top-level catch logs the error, and returns.
ConnectFail ==
    /\ proc.state = "starting"
    /\ proc' = [proc EXCEPT !.state = "failed", !.failed = TRUE,
                            !.logged = @ \o <<"Failed to start server", "console.error(error)">>]
    /\ UNCHANGED Handling

\* SIGINT arrives: the handler logs, calls server.close() and awaits it.
Sigint ==
    /\ proc.state # "exited"
    /\ proc.sigints < MaxSigints
    /\ proc' = [proc EXCEPT !.sigints = @ + 1, !.closing = @ + 1,
                            !.logged = @ \o <<"Received SIGINT, shutting down server">>]
    /\ UNCHANGED Handling

\* A pending server.close() resolves: its SIGINT handler can resume.
CloseResolves ==
    /\ proc.state # "exited"
    /\ proc.closing > 0
    /\ proc' = [proc EXCEPT !.closing = @ - 1, !.closed = @ + 1, !.resumable = @ + 1]
    /\ UNCHANGED Handling

\* A pending server.close() rejects: the await throws in the handler, the
\* promise of the async handler rejects with nobody handling it, and the
\* runtime (Node.js 18) ends the process with status 1.
CloseRejects ==
    /\ proc.state # "exited"
    /\ proc.closing > 0
    /\ proc' = Exit([proc EXCEPT !.closing = @ - 1, !.rejected = @ + 1], 1, "rejection")
    /\ UNCHANGED Handling

\* A SIGINT handler leaving before its close has resolved.
SigintResumesEarly ==
    /\ proc.state # "exited"
    /\ proc.resumable > 0 \/ proc.closing > 0
    /\ proc' = Exit(proc, 0, "sigint")
    /\ UNCHANGED Handling

\* A SIGINT handler resumes after its await: process.exit(0).
SigintResumes ==
    /\ proc.state # "exited"
    /\ proc.resumable > 0
    /\ proc' = Exit([proc EXCEPT !.resumable = @ - 1], 0, "sigint")
    /\ UNCHANGED Handling

\* After a failed start-up nothing calls process.exit: the process stays,
\* or, with nothing left to wait for, ends by itself with status 0.
Drain ==
    /\ proc.state = "failed"
    /\ proc.closing = 0 /\ proc.resumable = 0
    /\ proc' = Exit(proc, 0, "drain")
    /\ UNCHANGED Handling

NextProc ==
    \/ Connect \/ ConnectFail \/ Sigint \/ CloseResolves \/ CloseRejects
    \/ SigintResumes \/ Drain
    \/ Tick \/ ListTools \/ CallToolProbe \/ Send

SpecProc == InitProc /\ [][NextProc]_vars

----------------------------------------------------------------------------
(* Properties.  They speak of the state in which a handler has returned    *)
(* and its response has not been sent yet.                                  *)

Called == phase = "done" /\ req.kind = "call"
CalledTool(name) == Called /\ req.name = name

IsEnvelope(r) == r.kind = "envelope"
IsSuccess(r) == IsEnvelope(r) /\ ~r.hasIsError
IsFailure(r) == IsEnvelope(r) /\ r.hasIsError /\ r.isError
TextOf(r) == r.content[1].text

\* The argument a request supplies for a parameter (Undefined: none).
Supplied(key) ==
    IF ~req.args.present THEN Undefined
    ELSE IF key = "timezone" THEN req.args.timezone ELSE req.args.format

Falsy == {Undefined, Null, Str(""), Num("0"), Bool("false")}

\* The value of a parameter after the default is substituted.
Resolved(key, default) ==
    IF Supplied(key) \in Falsy THEN Str(default) ELSE Supplied(key)

\* The values the platform cannot convert to a string, and the time zone
\* arguments it rejects.
Unconvertible(v) == v = ObjNoToString
Rejected(v) == Unconvertible(v) \/ JsToString(v) \notin ValidZones

\* C1: every tools/call request, whatever its name and arguments, returns
\* an envelope with exactly one content item, of type "text"; no exception
\* leaves the handler, from the log call before the try block, the try
\* block or the catch block.
C1_AlwaysEnvelope ==
    Called =>
        /\ IsEnvelope(resp)
        /\ Len(resp.content) = 1
        /\ resp.content[1].type = "text"
        /\ trace.entered

\* C1 witness: a call with a non-string argument whose conversion throws
\* has gone through the catch block.
C1_Witness ==
    /\ CalledTool("get_time_info")
    /\ req.args.present /\ req.args.timezone = ObjNoToString
    /\ trace.caught
    /\ IsFailure(resp)

CatalogNames == {Tools[i].name : i \in 1..Len(Tools)}

IsUnknownToolFailure(r, name) ==
    IsFailure(r) /\ TextOf(r) = "Error: Unknown tool: " \o name

\* C2: a call returns the failure envelope "Error: Unknown tool: <name>"
\* exactly when <name> is not a name of the catalog that tools/list
\* returns.
C2_UnknownToolIff ==
    Called => (IsUnknownToolFailure(resp, req.name) <=> req.name \notin CatalogNames)

\* C2 witness: a name that differs from a catalog name only in case has
\* produced the unknown-tool failure.
C2_Witness ==
    /\ CalledTool("Get_Current_Time")
    /\ IsUnknownToolFailure(resp, "Get_Current_Time")

\* The message of the failure the platform raises for a get_current_time
\* call whose time zone it rejects.
PlatformMessage(timezone, format) ==
    IF Unconvertible(timezone) \/ Unconvertible(format) THEN TypeErrorMessage
    ELSE "Invalid time zone specified: " \o JsToString(timezone)

\* C3: get_current_time with a time zone other than "system" that the
\* platform rejects is not caught in the handler: the dispatcher's catch
\* step runs and the response is the failure envelope "Error: <message of
\* the platform's failure>".
C3_InvalidZoneReachesDispatcher ==
    (/\ CalledTool("get_current_time")
     /\ Resolved("timezone", "system") # Str("system")
     /\ Rejected(Resolved("timezone", "system")))
    =>  /\ trace.caught
        /\ ~trace.out.localCatch
        /\ IsFailure(resp)
        /\ TextOf(resp) = "Error: " \o PlatformMessage(Resolved("timezone", "system"),
                                                       Resolved("format", "12hour"))

\* C3 witness: get_current_time was called with the time zone
\* "Not/ARealZone" and the dispatcher caught the platform's RangeError.
C3_Witness ==
    /\ CalledTool("get_current_time")
    /\ Supplied("timezone") = Str("Not/ARealZone")
    /\ trace.caught
    /\ TextOf(resp) = "Error: Invalid time zone specified: Not/ARealZone"

HasKey(rec, k) == \E i \in 1..Len(rec) : rec[i].key = k
HasField(rec, k, v) == \E i \in 1..Len(rec) : rec[i].key = k /\ rec[i].value = v

\* C4: get_time_info with a time zone other than "system" that the
\* platform rejects succeeds: no isError, a timezone_error field "Invalid
\* timezone: <timezone>", neither timezone_time nor requested_timezone, and
\* the dispatcher's catch step does not run.  (The statement of the claim;
\* it fails for a timezone argument that cannot be converted to a string.)
C4_InvalidZoneSucceeds ==
    (/\ CalledTool("get_time_info")
     /\ Resolved("timezone", "system") # Str("system")
     /\ Rejected(Resolved("timezone", "system")))
    =>  /\ IsSuccess(resp)
        /\ ~trace.caught
        /\ HasField(trace.out.record, "timezone_error",
                    Str("Invalid timezone: " \o JsToString(Resolved("timezone", "system"))))
        /\ ~HasKey(trace.out.record, "timezone_time")
        /\ ~HasKey(trace.out.record, "requested_timezone")
        /\ TextOf(resp) = JsonStringify(trace.out.record)

\* The part of C4 that holds: for a rejected timezone argument that can be
\* converted to a string, get_time_info succeeds with timezone_error.
C4_ConvertibleZoneSucceeds ==
    (/\ CalledTool("get_time_info")
     /\ Resolved("timezone", "system") # Str("system")
     /\ Rejected(Resolved("timezone", "system"))
     /\ ~Unconvertible(Resolved("timezone", "system")))
    =>  /\ IsSuccess(resp)
        /\ ~trace.caught
        /\ trace.out.localCatch
        /\ HasField(trace.out.record, "timezone_error",
                    Str("Invalid timezone: " \o JsToString(Resolved("timezone", "system"))))
        /\ ~HasKey(trace.out.record, "timezone_time")
        /\ ~HasKey(trace.out.record, "requested_timezone")

\* The declared parameters of a tool, from the catalog.
Declares(name, key) ==
    \E i \in 1..Len(Tools) :
        /\ Tools[i].name = name
        /\ \E j \in 1..Len(Tools[i].properties) : Tools[i].properties[j].name = key

\* C5: each declared parameter resolves to its declared default when the
\* argument is missing or falsy (no arguments, no key, "", null, 0, false)
\* and to the argument itself, unchanged, otherwise; a format outside the
\* declared enum is not rejected.
C5_ParameterResolution ==
    /\ (Called /\ Declares(req.name, "timezone"))
            => trace.out.timezone = Resolved("timezone", "system")
    /\ (Called /\ Declares(req.name, "format"))
            => trace.out.format = Resolved("format", "12hour")
    /\ (/\ CalledTool("get_current_time")
        /\ Resolved("timezone", "system") = Str("system")
        /\ Supplied("format").kind = "string")
            => IsSuccess(resp)

\* C5 witness: get_current_time got the falsy timezone 0, resolved to
\* "system", and a format outside the enum, passed through.
C5_Witness ==
    /\ CalledTool("get_current_time")
    /\ Supplied("timezone") = Num("0") /\ trace.out.timezone = Str("system")
    /\ Supplied("format") = Str("ISO") /\ trace.out.format = Str("ISO")
    /\ IsSuccess(resp)

IsHandlerRead(r) == r.by = "handler"
IsLogRead(r) == r.by = "log"
HandlerReads == SelectSeq(trace.reads, IsHandlerRead)
\* The instant the handler sampled into `now`.
SampledNow == HandlerReads[1].at

\* The shape of a time string.
EndsWithDayPeriod(s) == Len(s) >= 3 /\ SubSeq(s, Len(s) - 2, Len(s)) \in {" AM", " PM"}
IsIsoShaped(s) ==
    /\ Len(s) = 24
    /\ SubSeq(s, 5, 5) = "-" /\ SubSeq(s, 11, 11) = "T" /\ SubSeq(s, 24, 24) = "Z"
TimeStringOf(r) == SubSeq(TextOf(r), 15, Len(TextOf(r)))
HostEast == 0 - HostOffsetMinutes

\* C6: get_current_time with the resolved timezone "system" renders by the
\* resolved format alone: "iso" gives the ISO-8601 UTC string of the
\* sampled instant, "24hour" the locale string in 24-hour notation without
\* AM/PM, every other format (of those that convert to a string) the
\* locale string in 12-hour notation with AM/PM.
C6_SystemFormat ==
    (/\ CalledTool("get_current_time")
     /\ Resolved("timezone", "system") = Str("system")
     /\ ~Unconvertible(Resolved("format", "12hour")))
    =>  /\ IsSuccess(resp)
        /\ Len(HandlerReads) = 1
        /\ SubSeq(TextOf(resp), 1, 14) = "Current time: "
        /\ TimeStringOf(resp) =
             (CASE Resolved("format", "12hour") = Str("iso") -> ToISOString(SampledNow)
                [] Resolved("format", "12hour") = Str("24hour")
                       -> EnUsDateTime(SampledNow, HostEast, FALSE, FALSE)
                [] OTHER -> EnUsDateTime(SampledNow, HostEast, FALSE, TRUE))
        /\ IsIsoShaped(TimeStringOf(resp)) <=> Resolved("format", "12hour") = Str("iso")
        /\ EndsWithDayPeriod(TimeStringOf(resp))
              <=> Resolved("format", "12hour") \notin {Str("iso"), Str("24hour")}

\* C6 witness: an unrecognised format ("ISO") with no timezone gave a
\* 12-hour string with a day period.
C6_Witness ==
    /\ CalledTool("get_current_time")
    /\ Supplied("timezone") = Undefined /\ Supplied("format") = Str("ISO")
    /\ IsSuccess(resp) /\ EndsWithDayPeriod(TimeStringOf(resp))

\* C7: get_current_time with a resolved timezone other than "system" that
\* the platform accepts never renders ISO-8601; the text is the date-time
\* in that zone, in 12-hour notation exactly when the resolved format is
\* "12hour" ("24hour", "iso" and any other format give 24-hour notation).
C7_ZoneFormat ==
    (/\ CalledTool("get_current_time")
     /\ Resolved("timezone", "system") # Str("system")
     /\ ~Rejected(Resolved("timezone", "system"))
     /\ ~Unconvertible(Resolved("format", "12hour")))
    =>  /\ IsSuccess(resp)
        /\ Len(HandlerReads) = 1
        /\ SubSeq(TextOf(resp), 1, 14) = "Current time: "
        /\ TimeStringOf(resp) =
             EnUsDateTime(SampledNow, ZoneEast(JsToString(Resolved("timezone", "system"))),
                          TRUE, Resolved("format", "12hour") = Str("12hour"))
        /\ ~IsIsoShaped(TimeStringOf(resp))
        /\ EndsWithDayPeriod(TimeStringOf(resp)) <=> Resolved("format", "12hour") = Str("12hour")

\* C7 witness: format "iso" with the time zone Asia/Tokyo gave a 24-hour
\* string that is not ISO-8601.
C7_Witness ==
    /\ CalledTool("get_current_time")
    /\ Supplied("timezone") = Str("Asia/Tokyo") /\ Supplied("format") = Str("iso")
    /\ IsSuccess(resp)
    /\ ~IsIsoShaped(TimeStringOf(resp)) /\ ~EndsWithDayPeriod(TimeStringOf(resp))

\* The catalog of section 4.1.
IsParam(p, name, enum, default) ==
    p.name = name /\ p.type = "string" /\ p.enum = enum /\ p.default = default

\* C8: tools/list returns, after any requests handled before (failed ones
\* included), the same catalog: get_current_time (timezone, default
\* "system"; format, default "12hour", enum 12hour/24hour/iso) and then
\* get_time_info (timezone, default "system"); it never fails.
C8_CatalogFixed ==
    (phase = "done" /\ req.kind = "list") =>
        /\ resp.kind = "catalog"
        /\ Len(resp.tools) = 2
        /\ resp.tools[1].name = "get_current_time"
        /\ Len(resp.tools[1].properties) = 2
        /\ IsParam(resp.tools[1].properties[1], "timezone", <<>>, "system")
        /\ IsParam(resp.tools[1].properties[2], "format",
                   <<"12hour", "24hour", "iso">>, "12hour")
        /\ resp.tools[2].name = "get_time_info"
        /\ Len(resp.tools[2].properties) = 1
        /\ IsParam(resp.tools[2].properties[1], "timezone", <<>>, "system")

\* C8 witness: the catalog was returned after calls that failed.
C8_Witness ==
    /\ phase = "done" /\ req.kind = "list"
    /\ served = MaxServed
    /\ resp.kind = "catalog"

\* C9: get_current_time with the timezone "system" (or missing) or one the
\* platform accepts returns a success envelope whose text is "Current
\* time: " and the time string; isError is set only by the dispatcher's
\* catch step.  (The statement of the claim; it fails for a format
\* argument that cannot be converted to a string.)
C9_CurrentTimeSucceeds ==
    /\ (/\ CalledTool("get_current_time")
        /\ \/ Resolved("timezone", "system") = Str("system")
           \/ ~Rejected(Resolved("timezone", "system")))
       =>  /\ IsSuccess(resp)
           /\ SubSeq(TextOf(resp), 1, 14) = "Current time: "
    /\ (Called /\ IsEnvelope(resp) /\ resp.hasIsError) => trace.caught

\* The part of C9 that holds: with a format that can be converted to a
\* string, such a call succeeds.
C9_ConvertibleFormatSucceeds ==
    (/\ CalledTool("get_current_time")
     /\ \/ Resolved("timezone", "system") = Str("system")
        \/ ~Rejected(Resolved("timezone", "system"))
     /\ ~Unconvertible(Resolved("format", "12hour")))
    =>  /\ IsSuccess(resp)
        /\ SubSeq(TextOf(resp), 1, 14) = "Current time: "

\* C10, as stated: one invocation reads the wall clock exactly once.
C10_ClockReadOnce ==
    Called => Len(trace.reads) = 1

\* The time-derived values a successful call puts in its response, computed
\* from the instant `now`.
ExpectedRecord(now) ==
    BaseRecord(now) \o TimezoneFields(now, Resolved("timezone", "system")).value

\* C10, amended: the handler samples the clock into `now` at most once per
\* invocation, exactly once in every invocation that succeeds, and every
\* time-derived value of the response is computed from that sample; the
\* other readings of the clock are those of the log utility, one per log
\* line, and they go to stderr only.
C10_SingleSample ==
    Called =>
        /\ Len(HandlerReads) <= 1
        /\ IsSuccess(resp) => Len(HandlerReads) = 1
        /\ (IsSuccess(resp) /\ req.name = "get_current_time")
              => TextOf(resp) = "Current time: " \o
                    TimeString(SampledNow, Resolved("timezone", "system"),
                               Resolved("format", "12hour")).value
        /\ (IsSuccess(resp) /\ req.name = "get_time_info")
              => /\ trace.out.record = ExpectedRecord(SampledNow)
                 /\ TextOf(resp) = JsonStringify(ExpectedRecord(SampledNow))
        /\ Len(SelectSeq(trace.reads, IsLogRead)) >= 2
        /\ \A i \in 1..Len(trace.reads) :
              IsLogRead(trace.reads[i]) =>
                \E j \in 1..Len(stderr) :
                    /\ Len(stderr[j]) >= 26
                    /\ SubSeq(stderr[j], 1, 26) = "[" \o ToISOString(trace.reads[i].at) \o "]"

\* C10 witness: get_time_info for a time zone succeeded, the clock having
\* advanced between the log line before the sample and the sample, and
\* again before the log line after it.
C10_Witness ==
    /\ CalledTool("get_time_info")
    /\ Supplied("timezone") = Str("Asia/Tokyo")
    /\ IsSuccess(resp)
    /\ Len(trace.reads) = 4
    /\ trace.reads[2].at < trace.reads[3].at
    /\ trace.reads[3].at < trace.reads[4].at
    /\ HasKey(trace.out.record, "timezone_time")

\* The request in hand is the remembered one, with the same sampled instant.
SameAsRemembered ==
    /\ phase = "done"
    /\ remembered # None
    /\ req = remembered.req
    /\ SampleOf(trace.reads) = remembered.now

C13_StartupFailureExitsNonZero ==
    proc.failed =>
        /\ \E i \in 1..Len(proc.logged) : proc.logged[i] = "Failed to start server"
        /\ proc.state = "exited"
        /\ proc.exitCode # 0

\* C18: a process that received a SIGINT and is gone exited with status 0
\* after a close had completed.
C18_SigintExitsZero ==
    (proc.state = "exited" /\ proc.sigints > 0) =>
        proc.exitCode = 0 /\ proc.closed > 0

\* The documented base fields of a get_time_info record, in order.
BaseKeys ==
    <<"timestamp", "iso_string", "local_time", "day_of_week", "date", "year",
      "month", "day", "hour", "minute", "second", "timezone_offset">>

\* The first twelve fields of the record are the base fields, in order.
StartsWithBaseKeys(rec) ==
    /\ Len(rec) >= Len(BaseKeys)
    /\ \A i \in 1..Len(BaseKeys) : rec[i].key = BaseKeys[i]

\* The time zone argument is not "system" after resolution and the platform
\* accepts it.
AcceptedZone ==
    /\ Resolved("timezone", "system") # Str("system")
    /\ ~Rejected(Resolved("timezone", "system"))

\* C14: get_time_info with a time zone other than "system" that the
\* platform accepts returns a record of the twelve base fields followed by
\* exactly two fields: timezone_time, the sampled instant formatted for the
\* zone with its short name, and requested_timezone, the argument as it was
\* received; there is no timezone_error, and the text lists the fields in
\* that order.
C14_AcceptedZoneFields ==
    (CalledTool("get_time_info") /\ AcceptedZone) =>
        /\ IsSuccess(resp)
        /\ Len(trace.out.record) = Len(BaseKeys) + 2
        /\ StartsWithBaseKeys(trace.out.record)
        /\ trace.out.record[13] =
              [key |-> "timezone_time",
               value |-> Str(EnUsDateTime(SampledNow,
                                          ZoneEast(JsToString(Supplied("timezone"))),
                                          TRUE, TRUE)
                             \o " " \o ZoneShortName(JsToString(Supplied("timezone"))))]
        /\ trace.out.record[14] =
              [key |-> "requested_timezone", value |-> Supplied("timezone")]
        /\ ~HasKey(trace.out.record, "timezone_error")
        /\ TextOf(resp) = JsonStringify(trace.out.record)

\* C14 witness: the time zone was given as the array ["UTC"], which the
\* platform accepts as "UTC", and the record echoes the array.
C14_Witness ==
    /\ CalledTool("get_time_info")
    /\ Supplied("timezone") = Arr1("UTC")
    /\ IsSuccess(resp)
    /\ HasField(trace.out.record, "requested_timezone", Arr1("UTC"))

\* C15: get_time_info with the timezone missing, falsy or "system"
\* succeeds with a record of exactly the twelve base fields in the
\* documented order, without timezone_time, requested_timezone or
\* timezone_error.
C15_SystemRecord ==
    (CalledTool("get_time_info") /\ Resolved("timezone", "system") = Str("system")) =>
        /\ IsSuccess(resp)
        /\ Len(trace.out.record) = Len(BaseKeys)
        /\ StartsWithBaseKeys(trace.out.record)
        /\ \A k \in {"timezone_time", "requested_timezone", "timezone_error"} :
              ~HasKey(trace.out.record, k)
        /\ TextOf(resp) = JsonStringify(trace.out.record)

\* C15 witness: a falsy time zone argument (the number 0) was supplied and
\* the record has its twelve fields.
C15_Witness ==
    /\ CalledTool("get_time_info")
    /\ Supplied("timezone") = Num("0")
    /\ IsSuccess(resp)
    /\ Len(trace.out.record) = 12

\* Both versions have handled the request in hand.
BothHandled == phase = "done" /\ firstVersion # None

\* C16, as stated: for every request and sampled instant the version with
\* logging returns exactly the envelope of the version without logging,
\* and no log line is the text of the response.
C16_LoggingSideChannel ==
    BothHandled =>
        /\ resp = firstVersion.response
        /\ IsEnvelope(resp) =>
              \A i \in 1..Len(stderr) : TextOf(resp) # stderr[i]

\* The two versions agree whenever every argument converts to a string.
C16_ConvertibleArgumentsAgree ==
    (BothHandled /\ req.kind = "call"
     /\ ~Unconvertible(Supplied("timezone")) /\ ~Unconvertible(Supplied("format")))
    => resp = firstVersion.response

\* The time zone fields of a record are consistent with the resolved time
\* zone.
ConsistentZoneFields(rec, timezone) ==
    /\ HasKey(rec, "timezone_time") <=> HasKey(rec, "requested_timezone")
    /\ HasKey(rec, "timezone_error") =>
          ~HasKey(rec, "timezone_time") /\ ~HasKey(rec, "requested_timezone")
    /\ timezone = Str("system") =>
          \A k \in {"timezone_time", "requested_timezone", "timezone_error"} :
              ~HasKey(rec, k)
    /\ timezone # Str("system") =>
          (HasKey(rec, "timezone_time") /\ HasKey(rec, "requested_timezone"))
          \/ HasKey(rec, "timezone_error")

\* C17: in every record get_time_info builds, in the version with logging
\* and in the one without, timezone_time is present exactly when
\* requested_timezone is, timezone_error comes with neither, none of the
\* three is present for the resolved time zone "system", and one of the two
\* outcomes is present otherwise.
C17_ZoneFieldsConsistent ==
    (BothHandled /\ CalledTool("get_time_info")) =>
        /\ ~trace.out.thrown =>
              ConsistentZoneFields(trace.out.record, Resolved("timezone", "system"))
        /\ ~firstVersion.out.thrown =>
              ConsistentZoneFields(firstVersion.out.record, Resolved("timezone", "system"))

\* C17 witness: a rejected time zone gave a record with timezone_error
\* alone in both versions.
C17_Witness ==
    /\ BothHandled
    /\ CalledTool("get_time_info")
    /\ Supplied("timezone") = ObjPlain
    /\ ~trace.out.thrown /\ ~firstVersion.out.thrown
    /\ HasKey(trace.out.record, "timezone_error")
    /\ HasKey(firstVersion.out.record, "timezone_error")
    /\ Len(trace.out.record) = 13

====
